---------------------------- MODULE Spec2Model ----------------------------
(***************************************************************************)
(* Model of live-stream-blur (src/src/main.rs): the render loop of main,   *)
(* get_image_from_frame, process, process_light and loop_faces.            *)
(*                                                                         *)
(* A pixel is Rgba<u8>: a tuple <<r, g, b, a>> of integers 0..255.  An     *)
(* image is a record [width, height, px] whose px maps <<x, y>> to a pixel.*)
(* Resolutions are scaled down (the program captures 1280x720 and detects  *)
(* at 340x180); the capture resolution and the frame that the camera may   *)
(* deliver are bounded by the definitions of the first section.            *)
(***************************************************************************)
EXTENDS Integers, Sequences, FiniteSets, TLC

\* ------------------------------------------------------------------ bounds
CapW == 3
CapH == 2
MaxFaces == 2
MaxFrames == 2
NumPatterns == 3

\* ---------------------------------------------------------------- settings
Resolution(w, h) == [width |-> w, height |-> h]

\* Settings::default().capture, scaled down to the bounds.
Capture == Resolution(CapW, CapH)

\* The detection resolutions the model runs with: the capture resolution
\* itself (fast path) and every smaller one (scaled path).
DetectionResolutions ==
    { Resolution(w, h) : w \in 1..CapW, h \in 1..CapH }

\* ------------------------------------------------------------------ pixels
Palette ==
    << <<0, 0, 0, 0>>, <<255, 0, 0, 255>>, <<40, 80, 120, 255>>,
       <<0, 0, 0, 255>>, <<200, 100, 50, 128>> >>

Coords(w, h) == (0..(w - 1)) \X (0..(h - 1))

\* GenericImageView::get_pixel of a DynamicImage: the pixel as Rgba<u8>; a
\* buffer without an alpha channel reads as opaque.
GetPixel(img, p) ==
    IF img.color = "Rgb8" THEN img.px[p] \o <<255>> ELSE img.px[p]

\* DynamicImage::to_rgba8.
ToRgba8(img) ==
    [width |-> img.width, height |-> img.height, color |-> "Rgba8",
     px |-> [p \in Coords(img.width, img.height) |-> GetPixel(img, p)]]

\* Mutant of BlankImage: the blank buffer allocated opaque (as new_rgb8
\* converted to RGBA would be).
BlankImage_Opaque(w, h) ==
    [width |-> w, height |-> h, color |-> "Rgba8",
     px |-> [p \in Coords(w, h) |-> <<0, 0, 0, 255>>]]

\* DynamicImage::new_rgba8(w, h): every channel of every pixel zero.
BlankImage(w, h) ==
    [width |-> w, height |-> h, color |-> "Rgba8",
     px |-> [p \in Coords(w, h) |-> <<0, 0, 0, 0>>]]

\* ---------------------------------------------------------------- resizing
\* imageops::resize with FilterType::Nearest (a box kernel of support 0):
\* output index o of an axis resized from length n to length m samples the
\* single input index floor((o + 0.5) * n / m).
NearestIndex(o, n, m) ==
    LET i == ((2 * o + 1) * n) \div (2 * m)
    IN  IF i > n - 1 THEN n - 1 ELSE i

ResizeExact(img, w, h) ==
    [width |-> w, height |-> h, color |-> img.color,
     px |-> [p \in Coords(w, h) |->
               img.px[<<NearestIndex(p[1], img.width, w),
                        NearestIndex(p[2], img.height, h)>>]]]

\* -------------------------------------------------------------------- blur
\* imageops::blur(image, sigma) with sigma = blur_intensity = 1.5: a
\* Gaussian kernel of support 2 * sigma = 3 applied down the columns, then
\* along the rows.  Output index o takes the input indices o-3 .. o+3 that
\* exist, weighted by exp(-d^2 / (2 sigma^2)) (in thousandths, for distance
\* d = 0, 1, 2, 3), the weights renormalised to sum to one, and the result
\* rounded to the nearest u8.
GaussWeights == <<1000, 801, 411, 135>>

Abs(i) == IF i < 0 THEN -i ELSE i

Taps(o, n) ==
    { i \in 0..(n - 1) : Abs(i - o) <= Len(GaussWeights) - 1 }

\* The sum of f[i] over the indices i of S.
RECURSIVE SumOver(_, _)
SumOver(S, f) ==
    IF S = {} THEN 0
    ELSE LET i == CHOOSE j \in S : TRUE
         IN  f[i] + SumOver(S \ {i}, f)

RoundDiv(num, den) == (2 * num + den) \div (2 * den)

\* One channel of one output sample: line[i] is the channel value at input
\* index i of the row or column being filtered, of length n.
Sample(line, o, n) ==
    LET W  == [i \in Taps(o, n) |-> GaussWeights[Abs(i - o) + 1]]
        WV == [i \in Taps(o, n) |-> W[i] * line[i]]
    IN  RoundDiv(SumOver(Taps(o, n), WV), SumOver(Taps(o, n), W))

VerticalSample(img) ==
    [img EXCEPT !.px =
        [p \in Coords(img.width, img.height) |->
            [c \in 1..4 |->
                Sample([i \in 0..(img.height - 1) |-> img.px[<<p[1], i>>][c]],
                       p[2], img.height)]]]

HorizontalSample(img) ==
    [img EXCEPT !.px =
        [p \in Coords(img.width, img.height) |->
            [c \in 1..4 |->
                Sample([i \in 0..(img.width - 1) |-> img.px[<<i, p[2]>>][c]],
                       p[1], img.width)]]]

Blur(img) == HorizontalSample(VerticalSample(img))

\* ------------------------------------------------------------------ camera
\* What camera.frame_raw() hands over: the compressed bytes of one frame,
\* abstracted to the picture they encode.  pattern 0 stands for bytes that
\* image::load_from_memory cannot decode.
Garbage == [pattern |-> 0, width |-> 0, height |-> 0]

\* The camera is asked for the capture resolution; FrameSizes also holds a
\* frame one column narrower, for a camera that answers with another format.
FrameSizes == {Capture, Resolution(CapW - 1, CapH)}

Frames ==
    {Garbage} \cup
    { [pattern |-> k, width |-> r.width, height |-> r.height] :
        k \in 1..NumPatterns, r \in FrameSizes }

\* Even patterns decode without an alpha channel (as a JPEG does), odd ones
\* with one.
ColorOf(k) == IF k % 2 = 0 THEN "Rgb8" ELSE "Rgba8"

PatternPixel(k, x, y) ==
    LET rgba == Palette[((k * x + (k + 1) * y + 2) % Len(Palette)) + 1]
    IN  IF ColorOf(k) = "Rgb8" THEN SubSeq(rgba, 1, 3) ELSE rgba

\* image::load_from_memory(&buffer) on bytes that decode.
LoadFromMemory(buffer) ==
    [width |-> buffer.width, height |-> buffer.height,
     color |-> ColorOf(buffer.pattern),
     px |-> [p \in Coords(buffer.width, buffer.height) |->
               PatternPixel(buffer.pattern, p[1], p[2])]]

\* ---------------------------------------------------------------- detector
\* detector.detect returns any finite sequence of boxes, whatever the
\* luminance buffer (to_luma8, ImageData::new) it is handed; bbox.x() and
\* bbox.y() are i32, bbox.width() and bbox.height() are u32.
InBounds(face, w, h) ==
    /\ face.x >= 0 /\ face.y >= 0
    /\ face.x + face.width <= w
    /\ face.y + face.height <= h

\* Every box inside a w x h buffer, and three that are not: one with a
\* negative x, one past the right edge, one past the bottom edge.
Boxes(w, h) ==
    { face \in [x : (-1)..(w - 1), y : 0..(h - 1),
                width : 1..(w + 1), height : 1..(h + 1)] :
        \/ InBounds(face, w, h)
        \/ /\ face.y = 0 /\ face.height = 1 /\ face.x = -1 /\ face.width = 1
        \/ /\ face.y = 0 /\ face.height = 1 /\ face.x = w - 1 /\ face.width = 2
        \/ /\ face.x = 0 /\ face.width = 1 /\ face.y = h - 1 /\ face.height = 2 }

FaceLists(w, h) ==
    UNION { [1..n -> Boxes(w, h)] : n \in 0..MaxFaces }

\* ------------------------------------------------------------- loop_faces
\* `bbox.x() as u32`: a negative coordinate wraps to 2^32 + i.  That is
\* beyond the model checker's integers; the largest one it has stands for it
\* (the wrapped value is only ever compared with image dimensions).
AsU32(i) == IF i < 0 THEN 2147483647 ELSE i

\* source.view(x, y, w, h).to_image() reads every pixel of the rectangle
\* through get_pixel, which panics outside the image.
ViewInside(img, x, y, w, h) ==
    /\ w <= img.width  /\ x <= img.width - w
    /\ h <= img.height /\ y <= img.height - h

View(img, x, y, w, h) ==
    [width |-> w, height |-> h, color |-> "Rgba8",
     px |-> [p \in Coords(w, h) |-> GetPixel(img, <<p[1] + x, p[2] + y>>)]]

\* Mutant of PutBlurred: the callback is handed x, y without the box offset.
PutBlurred_NoOffset(output, blurred, box_x, box_y) ==
    [output EXCEPT !.px =
        [p \in Coords(output.width, output.height) |->
            IF p[1] < blurred.width /\ p[2] < blurred.height
            THEN blurred.px[p]
            ELSE output.px[p]]]

\* The callback on every pixel of `blurred`, in enumerate_pixels order:
\* put_pixel(output, x + box_x, y + box_y, pixel).
PutBlurred(output, blurred, box_x, box_y) ==
    [output EXCEPT !.px =
        [p \in Coords(output.width, output.height) |->
            IF /\ p[1] >= box_x /\ p[1] < box_x + blurred.width
               /\ p[2] >= box_y /\ p[2] < box_y + blurred.height
            THEN blurred.px[<<p[1] - box_x, p[2] - box_y>>]
            ELSE output.px[p]]]

\* Mutant of CompositeFace: the crop is taken from the output being built,
\* not from the source.
CompositeFace_CropFromOutput(output, source, face) ==
    LET box_x   == AsU32(face.x)
        box_y   == AsU32(face.y)
        cropped == View(output, box_x, box_y, face.width, face.height)
        blurred == Blur(cropped)
    IN  PutBlurred(output, blurred, box_x, box_y)

\* Mutant of CompositeFace: the whole picture is blurred, with what earlier
\* faces wrote, and the box is cut out of the result.
CompositeFace_BlurThenCrop(output, source, face) ==
    LET box_x   == AsU32(face.x)
        box_y   == AsU32(face.y)
        whole   == Blur(output)
        blurred == View(whole, box_x, box_y, face.width, face.height)
    IN  PutBlurred(output, blurred, box_x, box_y)

\* One iteration of `for face in faces` that does not panic.
CompositeFace(output, source, face) ==
    LET box_x   == AsU32(face.x)
        box_y   == AsU32(face.y)
        cropped == View(source, box_x, box_y, face.width, face.height)
        blurred == Blur(cropped)
    IN  PutBlurred(output, blurred, box_x, box_y)

\* Whether the iteration for `face` panics, and where.
FacePanic(output, source, face) ==
    LET box_x == AsU32(face.x)
        box_y == AsU32(face.y)
    IN  IF ~ViewInside(source, box_x, box_y, face.width, face.height)
        THEN "view"
        ELSE IF ~ViewInside(output, box_x, box_y, face.width, face.height)
        THEN "put_pixel"
        ELSE "none"

RECURSIVE ForFaces(_, _, _, _)
ForFaces(output, source, faces, i) ==
    IF i > Len(faces) THEN [panic |-> "none", image |-> output]
    ELSE LET why == FacePanic(output, source, faces[i])
         IN  IF why # "none" THEN [panic |-> why, image |-> output]
             ELSE ForFaces(CompositeFace(output, source, faces[i]),
                           source, faces, i + 1)

\* loop_faces with the faces the detector returned.
LoopFaces(source, vase, faces) == ForFaces(ToRgba8(vase), source, faces, 1)

\* ------------------------------------------------- process, process_light
\* The pixel test of the merge: [0, 0, 0, 0] => ().
IsSentinel(pixel) == pixel = <<0, 0, 0, 0>>

\* Mutant of Merge: every pixel of resized_image is written, the
\* transparent ones too.
Merge_Unconditional(output, resized) ==
    IF Coords(resized.width, resized.height)
          \subseteq Coords(output.width, output.height)
    THEN [panic |-> "none",
          image |-> [output EXCEPT !.px =
              [p \in Coords(output.width, output.height) |->
                  IF p \in Coords(resized.width, resized.height)
                  THEN resized.px[p] ELSE output.px[p]]]]
    ELSE [panic |-> "put_pixel", image |-> output]

\* The merge loop of process over resized_image.
Merge(output, resized) ==
    LET written == { p \in Coords(resized.width, resized.height) :
                       ~IsSentinel(resized.px[p]) }
    IN  IF written \subseteq Coords(output.width, output.height)
        THEN [panic |-> "none",
              image |-> [output EXCEPT !.px =
                  [p \in Coords(output.width, output.height) |->
                      IF p \in written THEN resized.px[p] ELSE output.px[p]]]]
        ELSE [panic |-> "put_pixel", image |-> output]

LowResolution(detection, source) ==
    ResizeExact(source, detection.width, detection.height)

\* What loop_faces returns inside process (output_temp).
OutputTemp(detection, source, faces) ==
    LoopFaces(LowResolution(detection, source),
              BlankImage(detection.width, detection.height), faces)

\* Mutant of Process: the output starts as a copy of the low resolution
\* image instead of the source.
Process_FromLowResolution(detection, source, faces) ==
    LET output_temp == OutputTemp(detection, source, faces)
    IN  IF output_temp.panic # "none" THEN output_temp
        ELSE Merge(ToRgba8(LowResolution(detection, source)),
                   ToRgba8(ResizeExact(output_temp.image,
                                       Capture.width, Capture.height)))

Process(detection, source, faces) ==
    LET output_temp == OutputTemp(detection, source, faces)
    IN  IF output_temp.panic # "none" THEN output_temp
        ELSE Merge(ToRgba8(source),
                   ToRgba8(ResizeExact(output_temp.image,
                                       Capture.width, Capture.height)))

ProcessLight(source, faces) == LoopFaces(source, source, faces)

\* The match of get_image_from_frame.
FastPath(detection) == detection = Capture

GetImage(detection, source, faces) ==
    IF FastPath(detection) THEN ProcessLight(source, faces)
    ELSE Process(detection, source, faces)

\* ------------------------------------------------------------ render loop
VARIABLES
    detection,  \* options.detection, fixed for the run
    pc,         \* where main is: "idle" (in events.next), "fetched",
                \* "decoded", "processed", "panicked", "exited"
    fetched,    \* the buffers frame_raw has returned, in order
    drawn,      \* one entry per gl.draw, in order
    buffer,     \* main's `buffer`
    image,      \* get_image_from_frame's `image`
    faces,      \* loop_faces' `faces`
    temp,       \* what loop_faces returned
    output,     \* get_image_from_frame's `output`, the texture's pixels
    panic,      \* which call panicked, "none" while none has
    failed      \* the number of the frame whose fetch or decode failed

vars ==
    <<detection, pc, fetched, drawn, buffer, image, faces, temp, output,
      panic, failed>>

NoBuffer == [pattern |-> -1, width |-> 0, height |-> 0]
NoImage == BlankImage(0, 0)

Init ==
    /\ detection \in DetectionResolutions
    /\ pc = "idle"
    /\ fetched = <<>>
    /\ drawn = <<>>
    /\ buffer = NoBuffer
    /\ image = NoImage
    /\ faces = <<>>
    /\ temp = NoImage
    /\ output = NoImage
    /\ panic = "none"
    /\ failed = 0

\* Mutant of FrameRaw: the next frame is fetched as soon as the previous one
\* is composited, without waiting for it to be drawn.
FrameRaw_BeforeDraw ==
    /\ pc \in {"idle", "processed"}
    /\ Len(fetched) < MaxFrames
    /\ \E b \in Frames :
         /\ buffer' = b
         /\ fetched' = Append(fetched, b)
    /\ pc' = "fetched"
    /\ UNCHANGED <<detection, drawn, image, faces, temp, output, panic, failed>>

\* A render event, and camera.frame_raw() returns a buffer.
FrameRaw ==
    /\ pc = "idle"
    /\ Len(fetched) < MaxFrames
    /\ \E b \in Frames :
         /\ buffer' = b
         /\ fetched' = Append(fetched, b)
    /\ pc' = "fetched"
    /\ UNCHANGED <<detection, drawn, image, faces, temp, output, panic, failed>>

\* Mutant of FrameRawErr: the error is noted and the loop goes on to the
\* next event.
FrameRawErr_Retry ==
    /\ pc = "idle"
    /\ Len(fetched) < MaxFrames
    /\ failed = 0
    /\ pc' = "idle"
    /\ failed' = Len(fetched) + 1
    /\ UNCHANGED <<detection, fetched, drawn, buffer, image, faces, temp,
                   output, panic>>

\* A render event, and camera.frame_raw() returns Err: unwrap panics.
FrameRawErr ==
    /\ pc = "idle"
    /\ Len(fetched) < MaxFrames
    /\ pc' = "panicked"
    /\ panic' = "frame_raw"
    /\ failed' = Len(fetched) + 1
    /\ UNCHANGED <<detection, fetched, drawn, buffer, image, faces, temp, output>>

\* events.next returns None (the window was closed): the loop ends.
WindowClosed ==
    /\ pc = "idle"
    /\ pc' = "exited"
    /\ UNCHANGED <<detection, fetched, drawn, buffer, image, faces, temp,
                   output, panic, failed>>

\* image::load_from_memory(&buffer).unwrap().
Decode ==
    /\ pc = "fetched"
    /\ IF buffer = Garbage
       THEN /\ pc' = "panicked"
            /\ panic' = "decode"
            /\ failed' = Len(fetched)
            /\ image' = image
       ELSE /\ pc' = "decoded"
            /\ image' = LoadFromMemory(buffer)
            /\ UNCHANGED <<panic, failed>>
    /\ UNCHANGED <<detection, fetched, drawn, buffer, faces, temp, output>>

\* The match of get_image_from_frame: detection and compositing on the path
\* the settings select.
Composite ==
    /\ pc = "decoded"
    /\ \E fs \in FaceLists(detection.width, detection.height) :
         LET lf == IF FastPath(detection) THEN ProcessLight(image, fs)
                   ELSE OutputTemp(detection, image, fs)
             r  == GetImage(detection, image, fs)
         IN  /\ faces' = fs
             /\ temp' = lf.image
             /\ panic' = r.panic
             /\ IF r.panic = "none"
                THEN pc' = "processed" /\ output' = r.image
                ELSE pc' = "panicked" /\ output' = output
    /\ UNCHANGED <<detection, fetched, drawn, buffer, image, failed>>

\* Texture::from_image and gl.draw; the locals of the iteration are dropped.
Draw ==
    /\ pc = "processed"
    /\ drawn' = Append(drawn, [frame |-> buffer, n |-> Len(fetched),
                               nofaces |-> faces = <<>>,
                               same |-> output = ToRgba8(image)])
    /\ pc' = "idle"
    /\ buffer' = NoBuffer
    /\ image' = NoImage
    /\ faces' = <<>>
    /\ temp' = NoImage
    /\ output' = NoImage
    /\ UNCHANGED <<detection, fetched, panic, failed>>

\* An event that is not a render event changes nothing (render_args() is
\* None): a stuttering step.
Next ==
    \/ FrameRaw
    \/ FrameRawErr
    \/ WindowClosed
    \/ Decode
    \/ Composite
    \/ Draw

Spec == Init /\ [][Next]_vars

\* ------------------------------------------------------------------ claims
Scaled == ~FastPath(detection)

Covers(face, q) ==
    /\ q[1] >= face.x /\ q[1] < face.x + face.width
    /\ q[2] >= face.y /\ q[2] < face.y + face.height

\* The detection-space pixel that capture-space pixel p is upscaled from.
DownIndex(p) ==
    <<NearestIndex(p[1], detection.width, Capture.width),
      NearestIndex(p[2], detection.height, Capture.height)>>

\* The faces of the current frame that cover detection-space pixel q.
Covering(q) == { i \in 1..Len(faces) : Covers(faces[i], q) }

Last(S) == CHOOSE i \in S : \A j \in S : j <= i

\* The buffer loop_faces crops from on the current path.
CropSource == IF Scaled THEN LowResolution(detection, image) ELSE image

\* The blurred pixel face i computes for pixel q of the buffer it was
\* detected on.
BlurredAt(i, q) ==
    Blur(View(CropSource, faces[i].x, faces[i].y,
              faces[i].width, faces[i].height)).px[
        <<q[1] - faces[i].x, q[2] - faces[i].y>>]

\* C1: on the scaled path every output pixel outside the upscaled image of
\* every detected box equals the source pixel at the same coordinates.
C1_OutsideBoxesUntouched ==
    (pc = "processed" /\ Scaled) =>
        \A p \in Coords(output.width, output.height) :
            (p \in Coords(Capture.width, Capture.height)
                => Covering(DownIndex(p)) = {})
            => output.px[p] = GetPixel(image, p)

C1_Witness ==
    /\ pc = "processed" /\ Scaled /\ faces # <<>>
    /\ \E p \in Coords(output.width, output.height) :
          Covering(DownIndex(p)) = {}
    /\ \E p \in Coords(output.width, output.height) :
          output.px[p] # GetPixel(image, p)

CaptureSized(img) ==
    img.width = Capture.width /\ img.height = Capture.height

\* C2: on both paths every output pixel inside a detected box (scaled path:
\* inside its upscaled rectangle) holds the blurred pixel computed for that
\* position, whatever the value of that blurred pixel (stated for frames of
\* the capture resolution).
C2_InsideBoxesBlurred ==
    (pc = "processed" /\ CaptureSized(image)) =>
        \A p \in Coords(output.width, output.height)
                 \cap Coords(Capture.width, Capture.height) :
            LET q == IF Scaled THEN DownIndex(p) ELSE p
            IN  Covering(q) # {}
                    => output.px[p] = BlurredAt(Last(Covering(q)), q)

\* C3: on the fast path with one in-bounds box {x, y, w, h} the output is
\* the input except that each pixel of [x, x+w) x [y, y+h) holds the pixel of
\* blur(crop of the source at the box) at its offset in the box; nothing is
\* resized.
C3_FastPathOneBox ==
    (pc = "processed" /\ FastPath(detection) /\ Len(faces) = 1) =>
        /\ output.width = image.width /\ output.height = image.height
        /\ \A p \in Coords(image.width, image.height) :
             output.px[p] = IF Covers(faces[1], p) THEN BlurredAt(1, p)
                            ELSE GetPixel(image, p)

C3_Witness ==
    /\ pc = "processed" /\ FastPath(detection) /\ Len(faces) = 1
    /\ faces[1].x > 0 /\ faces[1].y > 0
    /\ \E p \in Coords(image.width, image.height) :
          Covers(faces[1], p) /\ output.px[p] # GetPixel(image, p)

\* C4: with a detector that returns no box, the pipeline run twice in
\* succession on the same frame shows the same output both times, the input
\* itself, on either path.
C4_EmptyDetectorIdentity ==
    /\ \A i \in 1..Len(drawn) : drawn[i].nofaces => drawn[i].same
    /\ (pc = "processed" /\ faces = <<>>) => output = ToRgba8(image)

C4_Witness ==
    /\ Scaled /\ Len(drawn) = 2
    /\ drawn[1].frame = drawn[2].frame
    /\ drawn[1].nofaces /\ drawn[2].nofaces
    /\ drawn[1].same /\ drawn[2].same

\* C5 as claimed: the output has the capture resolution whatever the
\* dimensions of the decoded frame.
C5_OutputIsCaptureSized ==
    pc = "processed" => CaptureSized(output)

\* C5 as amended: the output has the capture resolution, for every detection
\* resolution and on either path, when the decoded frame has it.
C5_OutputSizedAsCaptureFrame ==
    (pc = "processed" /\ CaptureSized(image)) => CaptureSized(output)

C5_Witness ==
    /\ pc = "processed" /\ Scaled /\ CaptureSized(image) /\ faces # <<>>
    /\ detection.width < Capture.width /\ detection.height < Capture.height
    /\ CaptureSized(output)

\* The buffer the detector ran on.
DetectedOn == IF Scaled THEN detection ELSE Resolution(image.width, image.height)

PastBuffer(face, w, h) ==
    /\ face.x >= 0 /\ face.y >= 0
    /\ face.x + face.width > w \/ face.y + face.height > h

\* C6: a box that extends past the right or bottom edge of the buffer does
\* not crash the frame: the crop and the written region are clamped (stated
\* for frames of the capture resolution).
C6_BoxPastBufferNoCrash ==
    (/\ CaptureSized(image)
     /\ \E i \in 1..Len(faces) :
          PastBuffer(faces[i], DetectedOn.width, DetectedOn.height))
    => panic = "none"

\* C7: frames are handled one at a time and in capture order: the frames
\* drawn are the frames fetched, in order, none twice and none skipped, and
\* a frame is fetched only when every earlier one has been drawn.
C7_LockStepInOrder ==
    /\ Len(drawn) <= Len(fetched)
    /\ \A i \in 1..Len(drawn) :
         drawn[i].n = i /\ drawn[i].frame = fetched[i]
    /\ Len(fetched) - Len(drawn) <= 1
    /\ pc \in {"fetched", "decoded", "processed"}
         => Len(fetched) = Len(drawn) + 1 /\ buffer = fetched[Len(fetched)]
    /\ pc \in {"idle", "exited"} => Len(fetched) = Len(drawn)

C7_Witness ==
    /\ Len(drawn) = 2 /\ pc = "idle"
    /\ drawn[1].frame # drawn[2].frame

\* The sequences that list fs in another order.
Orders(fs) ==
    { [i \in 1..Len(fs) |-> fs[g[i]]] :
        g \in { f \in [1..Len(fs) -> 1..Len(fs)] :
                  \A i, j \in 1..Len(fs) : f[i] = f[j] => i = j } }

Disjoint(f, g) ==
    \/ f.x + f.width <= g.x \/ g.x + g.width <= f.x
    \/ f.y + f.height <= g.y \/ g.y + g.height <= f.y

\* C8: for pairwise non-overlapping in-bounds boxes the output is the same
\* for every order in which the boxes are composited.
C8_OrderIndependent ==
    (/\ pc = "processed"
     /\ \A i, j \in 1..Len(faces) : i # j => Disjoint(faces[i], faces[j]))
    => \A fs \in Orders(faces) :
          GetImage(detection, image, fs) = [panic |-> "none", image |-> output]

C8_Witness ==
    /\ pc = "processed" /\ Len(faces) = 2 /\ faces[1] # faces[2]
    /\ Disjoint(faces[1], faces[2])
    /\ \A i \in 1..2 : \E p \in Coords(output.width, output.height) :
          /\ Covers(faces[i], IF Scaled THEN DownIndex(p) ELSE p)
          /\ output.px[p] # GetPixel(image, p)

\* C9: a failed fetch or decode of frame n is fatal: frame n is never drawn,
\* and from then on nothing is fetched, processed or drawn.
C9_FailureIsFatal ==
    /\ [](failed # 0 => \A i \in 1..Len(drawn) : drawn[i].n # failed)
    /\ [][failed # 0 => UNCHANGED vars]_vars

C9_Witness ==
    /\ pc = "panicked" /\ panic = "decode" /\ failed = 2 /\ Len(drawn) = 1

\* C10: boxes are composited in the detector's order, each blurred from a
\* crop of the unmodified source: in what loop_faces returns, a pixel covered
\* by boxes holds the blurred pixel of the last box covering it, and any
\* other pixel that of the buffer loop_faces started from.
C10_LastCoveringBoxWins ==
    pc = "processed" =>
        \A q \in Coords(temp.width, temp.height) :
            temp.px[q] =
                IF Covering(q) # {} THEN BlurredAt(Last(Covering(q)), q)
                ELSE IF Scaled THEN <<0, 0, 0, 0>> ELSE GetPixel(image, q)

C10_Witness ==
    /\ pc = "processed" /\ Len(faces) = 2
    /\ \E q \in Coords(temp.width, temp.height) :
          /\ Covering(q) = {1, 2}
          /\ BlurredAt(1, q) # BlurredAt(2, q)
          /\ temp.px[q] = BlurredAt(2, q)

=============================================================================
